---- MODULE Spec2Model ----
(***************************************************************************)
(* Dual-channel delivery coordinator of the dashboard page                 *)
(* (src/app/dashboard/page.tsx): the push channel (WebSocket) with its     *)
(* heartbeat and reconnect timers, the task submission handler and the     *)
(* polling fallback started by it.                                         *)
(*                                                                         *)
(* Every WebSocket object, timer and invocation of the submit handler is   *)
(* an object of its own: the refs of the component (wsRef,                 *)
(* reconnectTimeoutRef, pingIntervalRef, pollIntervalRef, taskIdRef) hold  *)
(* the identity of one of them or null (0), and a timer stays pending      *)
(* until clearTimeout/clearInterval is called on its own handle.           *)
(***************************************************************************)
EXTENDS Integers, Sequences, FiniteSets, TLC

\* ---------------------------------------------------------------- bounds
MaxChannels == 3      \* WebSocket objects created during one page lifetime
MaxSubmits  == 2      \* invocations of handleStartTaskWithFiles
MaxFiles    == 2      \* files attached to one submission
MaxInFlight == 2      \* poll requests of one interval awaiting a response
MaxLogs     == 1      \* agent_log notifications kept in the event log

\* ------------------------------------------------------ program constants
maxPolls         == 30
ReconnectDelayMs == 3000

Null == 0
NoPing == [ws |-> Null, readyState |-> "none"]
Channels == 1..MaxChannels
Calls    == 1..MaxSubmits

VARIABLES
  mounted,              \* FALSE once the effect cleanup has run
  fetching,             \* TRUE while fetchUser awaits /api/auth/me
  userId,               \* useState userId (the empty string is null)
  chan,                 \* readyState of every WebSocket object
  wsRef,                \* wsRef.current
  wsConnected,          \* useState wsConnected
  reconnectTimeoutRef,  \* reconnectTimeoutRef.current
  reconnectTimers,      \* pending setTimeout timers of onclose
  pingIntervalRef,      \* pingIntervalRef.current
  pingIntervals,        \* active setInterval timers of onopen
  lastPing,             \* the last 'ping' sent: socket and its readyState
  isRunning, showResults, result, agentLogs,   \* useState of the page
  taskIdRef,            \* taskIdRef.current
  pollIntervalRef,      \* pollIntervalRef.current
  pollIntervals,        \* active setInterval timers of the submit handler
  calls,                \* the invocations of handleStartTaskWithFiles
  taskStatus,           \* the backend's status of every created task
  taskResult            \* whether the backend stored a result for the task

connVars == <<mounted, fetching, lastPing, userId, chan, wsRef, wsConnected,
              reconnectTimeoutRef, reconnectTimers, pingIntervalRef,
              pingIntervals>>
taskVars == <<isRunning, showResults, result, agentLogs, taskIdRef,
              pollIntervalRef, pollIntervals, calls, taskStatus, taskResult>>
vars == <<connVars, taskVars>>

\* ------------------------------------------------------------ push channel
\* Number of WebSocket objects created so far; they are numbered in order.
NumChan == Cardinality({c \in Channels : chan[c] # "none"})

\* WebSocket.close(): CONNECTING and OPEN become CLOSING, the close event is
\* delivered later; closing a CLOSING or CLOSED socket does nothing.
CloseSocket(s) == IF s \in {"connecting", "open"} THEN "closing" ELSE s

\* An identity is a string, modelled as the sequence of its characters; an
\* absent identity (undefined) is falsy like the empty string and modelled
\* by it.
\* The identity /api/auth/me returns for this user: the uid every created
\* socket and its handlers were given.
Uid == <<"u", "1">>
NoUid == <<>>
UndefinedWord == <<"u", "n", "d", "e", "f", "i", "n", "e", "d">>
NullWord == <<"n", "u", "l", "l">>

\* String.prototype.trim(): white space removed from both ends.
RECURSIVE TrimStart(_)
TrimStart(s) == IF s # <<>> /\ Head(s) = " " THEN TrimStart(Tail(s)) ELSE s
RECURSIVE TrimEnd(_)
TrimEnd(s) ==
  IF s # <<>> /\ s[Len(s)] = " " THEN TrimEnd(SubSeq(s, 1, Len(s) - 1)) ELSE s
Trim(s) == TrimEnd(TrimStart(s))

\* Variant of ValidUid: the test without the sentinel words and the trim.
ValidUidNonEmpty(uid) == uid # NoUid

\* The negation of the test of setupWebSocket and fetchUser:
\* !uid || uid === 'undefined' || uid === 'null' || uid.trim() === ''
ValidUid(uid) ==
  ~(uid = NoUid \/ uid = UndefinedWord \/ uid = NullWord \/ Trim(uid) = <<>>)

\* Variant of Creates: setupWebSocket without the already-connected test.
CreatesAlways(uid) == ValidUid(uid)

\* setupWebSocket would reach `new WebSocket(wsUrl)`.
Creates(uid) == ValidUid(uid) /\ ~(wsRef # Null /\ chan[wsRef] = "open")

\* setupWebSocket(uid): the synchronous part, up to the handler assignments.
SetupWebSocket(uid) ==
  IF ~Creates(uid)
  THEN UNCHANGED <<chan, wsRef>>
  ELSE LET old == IF wsRef # Null
                  THEN [chan EXCEPT ![wsRef] = CloseSocket(@)]
                  ELSE chan
           ws  == NumChan + 1
       IN /\ chan' = [old EXCEPT ![ws] = "connecting"]
          /\ wsRef' = ws

\* The model creates at most MaxChannels sockets.
CanSetup(uid) == Creates(uid) => NumChan < MaxChannels

\* clearTimeout(h) / clearInterval(h) on a handle that may be null or stale.
Clear(timers, h) == {t \in timers : t.id # h}

\* fetchUser after its awaits: a valid id is stored and the channel opened,
\* an invalid one redirects to the login page.
FetchUser(uid) ==
  /\ fetching
  /\ CanSetup(uid)
  /\ fetching' = FALSE
  /\ IF ValidUid(uid)
     THEN userId' = uid /\ SetupWebSocket(uid)
     ELSE UNCHANGED <<userId, chan, wsRef>>
  /\ UNCHANGED <<mounted, lastPing, wsConnected, reconnectTimeoutRef,
                 reconnectTimers, pingIntervalRef, pingIntervals, taskVars>>

\* ws.onopen of socket c.
OnOpen(c) ==
  /\ chan[c] = "connecting"
  /\ chan' = [chan EXCEPT ![c] = "open"]
  /\ wsConnected' = TRUE
  /\ reconnectTimers' = Clear(reconnectTimers, reconnectTimeoutRef)
  /\ reconnectTimeoutRef' = Null
  /\ pingIntervals' = Clear(pingIntervals, pingIntervalRef) \cup {[id |-> c]}
  /\ pingIntervalRef' = c
  /\ UNCHANGED <<mounted, fetching, lastPing, userId, wsRef, taskVars>>

\* Variant of OnError: an error handler that also stops the heartbeat.
OnErrorStopsPing(c) ==
  /\ chan[c] \in {"connecting", "open"}
  /\ chan' = [chan EXCEPT ![c] = "closing"]
  /\ wsConnected' = FALSE
  /\ pingIntervals' = Clear(pingIntervals, pingIntervalRef)
  /\ pingIntervalRef' = Null
  /\ UNCHANGED <<mounted, fetching, lastPing, userId, wsRef,
                 reconnectTimeoutRef, reconnectTimers, taskVars>>

\* ws.onerror of socket c: the browser fails the connection, so the close
\* event of c follows.
OnError(c) ==
  /\ chan[c] \in {"connecting", "open"}
  /\ chan' = [chan EXCEPT ![c] = "closing"]
  /\ wsConnected' = FALSE
  /\ UNCHANGED <<mounted, fetching, lastPing, userId, wsRef, reconnectTimeoutRef,
                 reconnectTimers, pingIntervalRef, pingIntervals, taskVars>>

\* Variant of Sends: the interval callback without the readyState test.
SendsAlways(c) == TRUE

\* The test of the ping interval callback of socket c.
Sends(c) == chan[c] = "open"

\* A tick of the ping interval iv, installed by onopen of socket iv.id.
PingTick(iv) ==
  /\ iv \in pingIntervals
  /\ IF Sends(iv.id)
     THEN lastPing' = [ws |-> iv.id, readyState |-> chan[iv.id]]
     ELSE UNCHANGED lastPing
  /\ UNCHANGED <<mounted, fetching, userId, chan, wsRef, wsConnected,
                 reconnectTimeoutRef, reconnectTimers, pingIntervalRef,
                 pingIntervals, taskVars>>

\* Variant of Schedules: onclose without the pending-handle test.
SchedulesAlways == TRUE

\* onclose schedules a reconnect unless a handle is already stored.
Schedules == reconnectTimeoutRef = Null

\* Variant of OnClose: a close that also drops the bound task id.
OnCloseDropsTask(c) ==
  /\ chan[c] \in {"connecting", "open", "closing"}
  /\ chan' = [chan EXCEPT ![c] = "closed"]
  /\ wsRef' = Null
  /\ wsConnected' = FALSE
  /\ pingIntervals' = Clear(pingIntervals, pingIntervalRef)
  /\ pingIntervalRef' = Null
  /\ IF Schedules
     THEN /\ reconnectTimers' = reconnectTimers \cup
                     {[id |-> c, delay |-> ReconnectDelayMs, uid |-> Uid]}
          /\ reconnectTimeoutRef' = c
     ELSE UNCHANGED <<reconnectTimers, reconnectTimeoutRef>>
  /\ taskIdRef' = Null
  /\ UNCHANGED <<mounted, fetching, lastPing, userId, isRunning, showResults,
                 result, agentLogs, pollIntervalRef, pollIntervals, calls,
                 taskStatus, taskResult>>

\* ws.onclose of socket c: the close event of a socket that the server or
\* the network closed, or that close() was called on.
OnClose(c) ==
  /\ chan[c] \in {"connecting", "open", "closing"}
  /\ chan' = [chan EXCEPT ![c] = "closed"]
  /\ wsRef' = Null
  /\ wsConnected' = FALSE
  /\ pingIntervals' = Clear(pingIntervals, pingIntervalRef)
  /\ pingIntervalRef' = Null
  /\ IF Schedules
     THEN /\ reconnectTimers' = reconnectTimers \cup
                     {[id |-> c, delay |-> ReconnectDelayMs, uid |-> Uid]}
          /\ reconnectTimeoutRef' = c
     ELSE UNCHANGED <<reconnectTimers, reconnectTimeoutRef>>
  /\ UNCHANGED <<mounted, fetching, lastPing, userId, taskVars>>

\* Variant of ReconnectFire: a callback that forgets the handle and does not
\* call setupWebSocket.
ReconnectFireNoSetup(t) ==
  /\ t \in reconnectTimers
  /\ reconnectTimers' = reconnectTimers \ {t}
  /\ reconnectTimeoutRef' = Null
  /\ UNCHANGED <<mounted, fetching, lastPing, userId, chan, wsRef, wsConnected,
                 pingIntervalRef, pingIntervals, taskVars>>

\* The callback of the reconnect timer t.
ReconnectFire(t) ==
  /\ t \in reconnectTimers
  /\ CanSetup(t.uid)
  /\ reconnectTimers' = reconnectTimers \ {t}
  /\ reconnectTimeoutRef' = Null
  /\ SetupWebSocket(t.uid)
  /\ UNCHANGED <<mounted, fetching, lastPing, userId, wsConnected, pingIntervalRef,
                 pingIntervals, taskVars>>

\* ------------------------------------------------------------ task session
NoResult == [task |-> Null, kind |-> "none"]
\* setResult(msg.result) and setResult(taskData.task.result): the payload the
\* backend stored for task t.
Payload(t, status) ==
  [task |-> t, kind |-> IF status = "completed" THEN "completed"
                        ELSE "failedPayload"]
\* The result objects the page builds itself.
PushError(t)     == [task |-> t, kind |-> "pushError"]
PollError(t)     == [task |-> t, kind |-> "pollError"]
TimeoutResult(t) == [task |-> t, kind |-> "timeout"]

\* The fields of a result object that the results view reads ("" is an
\* absent field).  The objects the page builds carry the literals of the
\* code; a payload of the backend carries the status of its task, and an
\* error text when the task failed.
Fields(r) ==
  IF r.kind = "completed"
  THEN [status |-> "completed", error |-> "", message |-> "",
        summary |-> "payload", recommendations |-> {"payload"}]
  ELSE IF r.kind = "failedPayload"
  THEN [status |-> "error", error |-> "payload", message |-> "",
        summary |-> "payload", recommendations |-> {"payload"}]
  ELSE IF r.kind = "pushError"
  THEN [status |-> "error", error |-> "msg.error", message |-> "",
        summary |-> "Error: msg.error",
        recommendations |-> {"Please try again"}]
  ELSE IF r.kind = "pollError"
  THEN [status |-> "error", error |-> "Task failed", message |-> "",
        summary |-> "Task failed", recommendations |-> {"Try again"}]
  ELSE IF r.kind = "timeout"
  THEN [status |-> "error", error |-> "", message |-> "",
        summary |-> "Task taking longer than expected",
        recommendations |-> {"Check History page later"}]
  ELSE [status |-> "", error |-> "", message |-> "", summary |-> "",
        recommendations |-> {}]

\* The failure test of the results view.
FailureTest(f) == f.status = "error" \/ f.error # ""

\* ResultsPanel({showResults, result}): the view rendered and the texts of
\* the result it shows.
ResultsPanel(show, r) ==
  LET f == Fields(r)
  IN IF ~show
     THEN [view |-> "No Results Yet", shows |-> {}]
     ELSE IF FailureTest(f)
     THEN [view |-> "Task Failed",
           shows |-> {IF f.error # "" THEN f.error
                      ELSE IF f.message # "" THEN f.message
                      ELSE "Unknown error occurred"}]
     ELSE [view |-> "Task Completed",
           shows |-> {IF f.summary # "" THEN f.summary
                      ELSE "The AI has completed processing your task."}
                     \cup f.recommendations]

NoCall == [pc |-> "idle", files |-> 0, uploaded |-> 0, showResults |-> FALSE,
           logs |-> FALSE, wsConnected |-> FALSE, userId |-> NoUid,
           pollCount |-> 0, inflight |-> 0]

\* Values of a call's closure that the code can no longer read are dropped:
\* a call that returned after a failed upload ("aborted") or through the
\* catch block ("failed") keeps only that; a call that has returned, whose
\* poll interval is cleared and which has no
\* request in flight can never run again; while requests are still in
\* flight only `pollCount >= maxPolls` is read, of a pollCount that no
\* longer changes; a call whose ticks stop early never reads pollCount.
Collect(cs, ivs) ==
  [i \in Calls |->
     IF cs[i].pc \in {"aborted", "failed"}
     THEN [NoCall EXCEPT !.pc = cs[i].pc]
     ELSE IF cs[i].pc = "started" /\ [id |-> i] \notin ivs
     THEN IF cs[i].inflight = 0
          THEN [NoCall EXCEPT !.pc = "done"]
          ELSE [NoCall EXCEPT !.pc = "started", !.inflight = cs[i].inflight,
                  !.pollCount = IF cs[i].pollCount >= maxPolls
                                THEN maxPolls ELSE 0]
     ELSE IF cs[i].showResults \/ cs[i].logs
          THEN [cs[i] EXCEPT !.pollCount = 0]
          ELSE cs[i]]

\* After the upload loop the files and the captured connection state of a
\* call are not read again.
Uploaded(c) == [c EXCEPT !.files = 0, !.uploaded = 0, !.wsConnected = FALSE,
                         !.userId = NoUid]

NumCalls == Cardinality({i \in Calls : calls[i].pc # "idle"})

\* Lines 314-335 of call i, run with the values its render captured: the
\* optional reconnect and its 2 s wait, else the create-task request.
AfterUploads(i, c) ==
  IF ~c.wsConnected /\ c.userId # NoUid
  THEN /\ CanSetup(c.userId)
       /\ SetupWebSocket(c.userId)
       /\ calls' = [calls EXCEPT ![i] = [Uploaded(c) EXCEPT !.pc = "waiting"]]
  ELSE /\ UNCHANGED <<chan, wsRef>>
       /\ calls' = [calls EXCEPT ![i] = [Uploaded(c) EXCEPT !.pc = "creating"]]

\* handleStartTaskWithFiles(taskText, files) with n files, up to its first
\* await.  The Start button is disabled while isRunning.
Submit(n) ==
  LET i == NumCalls + 1
      c == [NoCall EXCEPT !.files = n, !.showResults = showResults,
                          !.logs = Len(agentLogs) > 0,
                          !.wsConnected = wsConnected, !.userId = userId]
  IN /\ mounted
     /\ ~isRunning
     /\ i <= MaxSubmits
     /\ isRunning' = TRUE
     /\ showResults' = FALSE
     /\ result' = NoResult
     /\ agentLogs' = <<>>
     /\ taskIdRef' = Null
     /\ IF n > 0
        THEN /\ calls' = [calls EXCEPT ![i] = [c EXCEPT !.pc = "uploading"]]
             /\ UNCHANGED <<chan, wsRef>>
        ELSE AfterUploads(i, c)
     /\ UNCHANGED <<mounted, fetching, lastPing, userId, wsConnected,
                    reconnectTimeoutRef, reconnectTimers, pingIntervalRef,
                    pingIntervals, pollIntervalRef, pollIntervals,
                    taskStatus,
                 taskResult>>

\* The files of call c whose upload request is in flight: the loop awaits the
\* upload of file uploaded + 1 before it goes on.
UploadsInFlight(c) == IF c.pc = "uploading" THEN {c.uploaded + 1} ELSE {}

\* Variant of UploadOk: the handler goes on to the create-task request as
\* soon as one upload has resolved.
UploadOkFirstOnly(i) ==
  LET c == [calls[i] EXCEPT !.uploaded = @ + 1]
  IN /\ calls[i].pc = "uploading"
     /\ AfterUploads(i, c)
     /\ UNCHANGED <<mounted, fetching, lastPing, userId, wsConnected,
                    reconnectTimeoutRef, reconnectTimers, pingIntervalRef,
                    pingIntervals, isRunning, showResults, result, agentLogs,
                    taskIdRef, pollIntervalRef, pollIntervals, taskStatus,
                    taskResult>>

\* The upload of the next file of call i resolves.
UploadOk(i) ==
  LET c == [calls[i] EXCEPT !.uploaded = @ + 1]
  IN /\ calls[i].pc = "uploading"
     /\ IF c.uploaded < c.files
        THEN calls' = [calls EXCEPT ![i] = c] /\ UNCHANGED <<chan, wsRef>>
        ELSE AfterUploads(i, c)
     /\ UNCHANGED <<mounted, fetching, lastPing, userId, wsConnected,
                    reconnectTimeoutRef, reconnectTimers, pingIntervalRef,
                    pingIntervals, isRunning, showResults, result, agentLogs,
                    taskIdRef, pollIntervalRef, pollIntervals, taskStatus,
                 taskResult>>

\* Variant of UploadFail: the rejected upload is skipped and the handler goes
\* on to the create-task request.
UploadFailContinues(i) ==
  /\ calls[i].pc = "uploading"
  /\ calls' = [calls EXCEPT ![i] = [Uploaded(@) EXCEPT !.pc = "creating"]]
  /\ UNCHANGED <<connVars, isRunning, showResults, result, agentLogs,
                 taskIdRef, pollIntervalRef, pollIntervals, taskStatus,
                 taskResult>>

\* The upload of the next file of call i is rejected.
UploadFail(i) ==
  /\ calls[i].pc = "uploading"
  /\ isRunning' = FALSE
  /\ calls' = Collect([calls EXCEPT ![i].pc = "aborted"], pollIntervals)
  /\ UNCHANGED <<connVars, showResults, result, agentLogs, taskIdRef,
                 pollIntervalRef, pollIntervals, taskStatus,
                 taskResult>>

\* The 2 s wait after the submit-time reconnect ends.
WaitDone(i) ==
  /\ calls[i].pc = "waiting"
  /\ calls' = [calls EXCEPT ![i].pc = "creating"]
  /\ UNCHANGED <<connVars, isRunning, showResults, result, agentLogs,
                 taskIdRef, pollIntervalRef, pollIntervals, taskStatus,
                 taskResult>>

\* The backend receives the create-task request of call i and creates the
\* task (its id is i); the response is still on its way.
BackendCreate(i) ==
  /\ calls[i].pc = "creating"
  /\ calls' = [calls EXCEPT ![i].pc = "created"]
  /\ taskStatus' = [taskStatus EXCEPT ![i] = "running"]
  /\ UNCHANGED <<connVars, isRunning, showResults, result, agentLogs,
                 taskIdRef, pollIntervalRef, pollIntervals, taskResult>>

\* The backend finishes task t, with or without a stored result.
BackendFinish(t, status, hasResult) ==
  /\ taskStatus[t] = "running"
  /\ taskStatus' = [taskStatus EXCEPT ![t] = status]
  /\ taskResult' = [taskResult EXCEPT ![t] = hasResult]
  /\ UNCHANGED <<connVars, isRunning, showResults, result, agentLogs,
                 taskIdRef, pollIntervalRef, pollIntervals, calls>>

\* The create-task response of call i is OK: bind the task id, start polling.
CreateOk(i) ==
  /\ calls[i].pc = "created"
  /\ taskIdRef' = i
  /\ pollIntervals' = pollIntervals \cup {[id |-> i]}
  /\ pollIntervalRef' = i
  /\ calls' = [calls EXCEPT ![i].pc = "started"]
  /\ UNCHANGED <<connVars, isRunning, showResults, result, agentLogs,
                 taskStatus,
                 taskResult>>

\* Variant of CreateFail: the catch block without setAgentLogs([]).
CreateFailKeepsLogs(i) ==
  /\ calls[i].pc = "creating"
  /\ isRunning' = FALSE
  /\ pollIntervals' = Clear(pollIntervals, pollIntervalRef)
  /\ pollIntervalRef' = Null
  /\ calls' = Collect([calls EXCEPT ![i].pc = "failed"], pollIntervals')
  /\ UNCHANGED <<connVars, showResults, result, agentLogs, taskIdRef,
                 taskStatus, taskResult>>

\* The create-task request of call i is refused or fails: the catch block.
CreateFail(i) ==
  /\ calls[i].pc = "creating"
  /\ isRunning' = FALSE
  /\ agentLogs' = <<>>
  /\ pollIntervals' = Clear(pollIntervals, pollIntervalRef)
  /\ pollIntervalRef' = Null
  /\ calls' = Collect([calls EXCEPT ![i].pc = "failed"], pollIntervals')
  /\ UNCHANGED <<connVars, showResults, result, taskIdRef, taskStatus,
                 taskResult>>

\* ------------------------------------------------------- polling fallback
\* The early-stop test of a tick, on the values the call's render captured.
StopsEarly(c) == c.showResults \/ c.logs

\* The timeout test at the end of a tick.
BudgetExhausted(c) == c.pollCount >= maxPolls

\* No tick is modelled beyond the ticks that overlapping requests allow.
TickCap == maxPolls + MaxInFlight

\* A tick of the poll interval of call i, up to its await: count, stop early
\* or issue the pull request.
PollTick(i) ==
  LET c == [calls[i] EXCEPT !.pollCount = @ + 1]
  IN /\ [id |-> i] \in pollIntervals
     /\ calls[i].pollCount < TickCap
     /\ IF StopsEarly(c)
        THEN /\ pollIntervals' = Clear(pollIntervals, pollIntervalRef)
             /\ pollIntervalRef' = Null
             /\ calls' = Collect([calls EXCEPT ![i] = c], pollIntervals')
        ELSE /\ c.inflight < MaxInFlight
             /\ calls' = [calls EXCEPT ![i] = [c EXCEPT !.inflight = @ + 1]]
             /\ UNCHANGED <<pollIntervals, pollIntervalRef>>
     /\ UNCHANGED <<connVars, isRunning, showResults, result, agentLogs,
                    taskIdRef, taskStatus,
                 taskResult>>

\* Variant of PollBranch: a failed pull request is surfaced as an error.
PollBranchSurfacesFailure(ok, status, hasResult) ==
  IF ok /\ status = "completed" /\ hasResult THEN "completed"
  ELSE IF ~ok \/ status = "error" THEN "error"
  ELSE "none"

\* The branch a poll response takes: "completed", "error" or "none".
PollBranch(ok, status, hasResult) ==
  IF ok /\ status = "completed" /\ hasResult THEN "completed"
  ELSE IF ok /\ status = "error" THEN "error"
  ELSE "none"

\* The rest of a tick of call i: the response of one pull request arrives
\* (ok = FALSE: exception or non-OK response), then the timeout test.
PollResponse(i, ok) ==
  LET c      == [calls[i] EXCEPT !.inflight = @ - 1]
      hasResult == taskResult[i]
      branch == PollBranch(ok, taskStatus[i], hasResult)
      tmo    == BudgetExhausted(c)
      r1     == IF branch = "completed" THEN Payload(i, "completed")
                ELSE IF branch = "error"
                     THEN IF hasResult THEN Payload(i, "error")
                                       ELSE PollError(i)
                     ELSE result
  IN /\ calls[i].inflight > 0
     /\ IF branch # "none" \/ tmo
        THEN /\ pollIntervals' = Clear(pollIntervals, pollIntervalRef)
             /\ pollIntervalRef' = Null
             /\ showResults' = TRUE
             /\ isRunning' = FALSE
        ELSE UNCHANGED <<pollIntervals, pollIntervalRef, showResults,
                         isRunning>>
     /\ result' = IF tmo THEN TimeoutResult(i) ELSE r1
     /\ taskIdRef' = IF branch # "none" THEN Null ELSE taskIdRef
     /\ agentLogs' = IF branch = "completed"
                     THEN Append(agentLogs, [task |-> i, agent |-> "System"])
                     ELSE agentLogs
     /\ calls' = Collect([calls EXCEPT ![i] = c], pollIntervals')
     /\ UNCHANGED <<connVars, taskStatus,
                 taskResult>>

\* ----------------------------------------------------------- notifications
\* The frames the backend may send: the notifications of the tasks it has
\* created, in the state they have reached, the pong of the heartbeat and a
\* frame that does not parse.
Frames ==
  {[type |-> "pong", task_id |-> Null], [type |-> "garbage", task_id |-> Null]}
  \cup {[type |-> "agent_log", task_id |-> t] :
          t \in {u \in Calls : taskStatus[u] # "none"}}
  \cup {[type |-> "task_completed", task_id |-> t] :
          t \in {u \in Calls : taskStatus[u] = "completed"}}
  \cup {[type |-> "task_error", task_id |-> t] :
          t \in {u \in Calls : taskStatus[u] = "error"}}

\* Variant of Discards: the comparison of the two ids inverted.
DiscardsInverted(msg) ==
  taskIdRef # Null /\ msg.task_id # Null /\ msg.task_id = taskIdRef

\* The identity filter of onmessage.
Discards(msg) ==
  taskIdRef # Null /\ msg.task_id # Null /\ msg.task_id # taskIdRef

\* Variant of OnMessage: a frame that does not parse ends the session and
\* marks the connection disconnected.
OnMessageParseFatal(c, msg) ==
  /\ chan[c] = "open"
  /\ msg \in Frames
  /\ IF msg.type = "pong" \/ (msg.type # "garbage" /\ Discards(msg))
     THEN UNCHANGED <<taskVars, wsConnected>>
     ELSE IF msg.type = "garbage"
     THEN /\ wsConnected' = FALSE
          /\ isRunning' = FALSE
          /\ UNCHANGED <<showResults, result, agentLogs, taskIdRef,
                         pollIntervalRef, pollIntervals, calls, taskStatus,
                         taskResult>>
     ELSE IF msg.type = "agent_log"
     THEN /\ Len(agentLogs) < MaxLogs
          /\ agentLogs' = Append(agentLogs,
                                 [task |-> msg.task_id, agent |-> "agent"])
          /\ UNCHANGED <<isRunning, showResults, result, taskIdRef,
                         pollIntervalRef, pollIntervals, calls, taskStatus,
                         taskResult, wsConnected>>
     ELSE /\ result' = IF msg.type = "task_completed"
                       THEN Payload(msg.task_id, "completed")
                       ELSE PushError(msg.task_id)
          /\ showResults' = TRUE
          /\ isRunning' = FALSE
          /\ taskIdRef' = Null
          /\ pollIntervals' = Clear(pollIntervals, pollIntervalRef)
          /\ pollIntervalRef' = Null
          /\ calls' = Collect(calls, pollIntervals')
          /\ UNCHANGED <<agentLogs, taskStatus, taskResult, wsConnected>>
  /\ UNCHANGED <<mounted, fetching, lastPing, userId, chan, wsRef,
                 reconnectTimeoutRef, reconnectTimers, pingIntervalRef,
                 pingIntervals>>

\* Variant of OnMessage: the terminal notifications leave the poll interval
\* running.
OnMessageKeepsPolling(c, msg) ==
  /\ chan[c] = "open"
  /\ msg \in Frames
  /\ IF msg.type \in {"pong", "garbage"} \/ Discards(msg)
     THEN UNCHANGED taskVars
     ELSE IF msg.type = "agent_log"
     THEN /\ Len(agentLogs) < MaxLogs
          /\ agentLogs' = Append(agentLogs,
                                 [task |-> msg.task_id, agent |-> "agent"])
          /\ UNCHANGED <<isRunning, showResults, result, taskIdRef,
                         pollIntervalRef, pollIntervals, calls, taskStatus,
                         taskResult>>
     ELSE /\ result' = IF msg.type = "task_completed"
                       THEN Payload(msg.task_id, "completed")
                       ELSE PushError(msg.task_id)
          /\ showResults' = TRUE
          /\ isRunning' = FALSE
          /\ taskIdRef' = Null
          /\ UNCHANGED <<agentLogs, pollIntervalRef, pollIntervals, calls,
                         taskStatus, taskResult>>
  /\ UNCHANGED connVars

\* ws.onmessage of socket c with frame msg.
OnMessage(c, msg) ==
  /\ chan[c] = "open"
  /\ msg \in Frames
  /\ IF msg.type \in {"pong", "garbage"} \/ Discards(msg)
     THEN UNCHANGED taskVars
     ELSE IF msg.type = "agent_log"
     THEN /\ Len(agentLogs) < MaxLogs
          /\ agentLogs' = Append(agentLogs,
                                 [task |-> msg.task_id, agent |-> "agent"])
          /\ UNCHANGED <<isRunning, showResults, result, taskIdRef,
                         pollIntervalRef, pollIntervals, calls, taskStatus, taskResult>>
     ELSE /\ result' = IF msg.type = "task_completed"
                       THEN Payload(msg.task_id, "completed")
                       ELSE PushError(msg.task_id)
          /\ showResults' = TRUE
          /\ isRunning' = FALSE
          /\ taskIdRef' = Null
          /\ pollIntervals' = Clear(pollIntervals, pollIntervalRef)
          /\ pollIntervalRef' = Null
          /\ calls' = Collect(calls, pollIntervals')
          /\ UNCHANGED <<agentLogs, taskStatus,
                 taskResult>>
  /\ UNCHANGED connVars

\* ----------------------------------------------------------------- teardown
\* The cleanup of the effect (the page is left): handles are cleared but the
\* refs keep them.
Cleanup ==
  /\ mounted
  /\ mounted' = FALSE
  /\ reconnectTimers' = Clear(reconnectTimers, reconnectTimeoutRef)
  /\ pingIntervals' = Clear(pingIntervals, pingIntervalRef)
  /\ pollIntervals' = Clear(pollIntervals, pollIntervalRef)
  /\ IF wsRef # Null
     THEN chan' = [chan EXCEPT ![wsRef] = CloseSocket(@)] /\ wsRef' = Null
     ELSE UNCHANGED <<chan, wsRef>>
  /\ UNCHANGED <<fetching, lastPing, userId, wsConnected, reconnectTimeoutRef,
                 pingIntervalRef, isRunning, showResults, result, agentLogs,
                 taskIdRef, pollIntervalRef, taskStatus,
                 taskResult>>
  /\ calls' = Collect(calls, pollIntervals')

\* ------------------------------------------------------------ specification
Init ==
  /\ mounted = TRUE
  /\ fetching = TRUE
  /\ userId = NoUid
  /\ chan = [c \in Channels |-> "none"]
  /\ wsRef = Null
  /\ wsConnected = FALSE
  /\ reconnectTimeoutRef = Null
  /\ reconnectTimers = {}
  /\ pingIntervalRef = Null
  /\ pingIntervals = {}
  /\ lastPing = NoPing
  /\ isRunning = FALSE
  /\ showResults = FALSE
  /\ result = NoResult
  /\ agentLogs = <<>>
  /\ taskIdRef = Null
  /\ pollIntervalRef = Null
  /\ pollIntervals = {}
  /\ calls = [i \in Calls |-> NoCall]
  /\ taskStatus = [i \in Calls |-> "none"]
  /\ taskResult = [i \in Calls |-> FALSE]

\* The identities /api/auth/me may answer with.
UidInputs == {Uid, NoUid, <<" ">>, <<" ", " ">>, UndefinedWord, NullWord}

Next ==
  \/ \E uid \in UidInputs : FetchUser(uid)
  \/ \E c \in Channels : OnOpen(c)
  \/ \E c \in Channels : OnError(c)
  \/ \E c \in Channels : OnClose(c)
  \/ \E t \in reconnectTimers : ReconnectFire(t)
  \/ \E iv \in pingIntervals : PingTick(iv)
  \/ Cleanup
  \/ \E n \in 0..MaxFiles : Submit(n)
  \/ \E i \in Calls : UploadOk(i)
  \/ \E i \in Calls : UploadFail(i)
  \/ \E i \in Calls : WaitDone(i)
  \/ \E i \in Calls : BackendCreate(i)
  \/ \E i \in Calls, s \in {"completed", "error"}, hasResult \in BOOLEAN :
       BackendFinish(i, s, hasResult)
  \/ \E i \in Calls : CreateOk(i)
  \/ \E i \in Calls : CreateFail(i)
  \/ \E i \in Calls : PollTick(i)
  \/ \E i \in Calls, ok \in BOOLEAN : PollResponse(i, ok)
  \/ \E c \in Channels, msg \in Frames : OnMessage(c, msg)

Spec == Init /\ [][Next]_vars

\* The connection manager with the submissions that reach it: no task is
\* ever created, a submission ends with a failed upload or create request.
NextConn ==
  \/ \E uid \in UidInputs : FetchUser(uid)
  \/ \E c \in Channels : OnOpen(c)
  \/ \E c \in Channels : OnError(c)
  \/ \E c \in Channels : OnClose(c)
  \/ \E t \in reconnectTimers : ReconnectFire(t)
  \/ \E iv \in pingIntervals : PingTick(iv)
  \/ Cleanup
  \/ \E n \in 0..MaxFiles : Submit(n)
  \/ \E i \in Calls : UploadOk(i)
  \/ \E i \in Calls : UploadFail(i)
  \/ \E i \in Calls : WaitDone(i)
  \/ \E i \in Calls : CreateFail(i)

SpecConn == Init /\ [][NextConn]_vars

\* The task session over a push channel that stays up once it is open.
NextTask ==
  \/ \E uid \in UidInputs : FetchUser(uid)
  \/ \E c \in Channels : OnOpen(c)
  \/ \E n \in 0..MaxFiles : Submit(n)
  \/ \E i \in Calls : UploadOk(i)
  \/ \E i \in Calls : UploadFail(i)
  \/ \E i \in Calls : WaitDone(i)
  \/ \E i \in Calls : BackendCreate(i)
  \/ \E i \in Calls, s \in {"completed", "error"}, hasResult \in BOOLEAN :
       BackendFinish(i, s, hasResult)
  \/ \E i \in Calls : CreateOk(i)
  \/ \E i \in Calls : CreateFail(i)
  \/ \E i \in Calls : PollTick(i)
  \/ \E i \in Calls, ok \in BOOLEAN : PollResponse(i, ok)
  \/ \E c \in Channels, msg \in Frames : OnMessage(c, msg)

SpecTask == Init /\ [][NextTask]_vars

\* The task session over a push channel that closes and reconnects while the
\* page stays mounted; uploads and create-task requests succeed and the
\* poll timer, once started, has not ticked yet.
NextReconnect ==
  \/ \E uid \in UidInputs : FetchUser(uid)
  \/ \E c \in Channels : OnOpen(c)
  \/ \E c \in Channels : OnError(c)
  \/ \E c \in Channels : OnClose(c)
  \/ \E t \in reconnectTimers : ReconnectFire(t)
  \/ \E n \in 0..MaxFiles : Submit(n)
  \/ \E i \in Calls : UploadOk(i)
  \/ \E i \in Calls : WaitDone(i)
  \/ \E i \in Calls : BackendCreate(i)
  \/ \E i \in Calls, s \in {"completed", "error"}, hasResult \in BOOLEAN :
       BackendFinish(i, s, hasResult)
  \/ \E i \in Calls : CreateOk(i)
  \/ \E c \in Channels, msg \in Frames : OnMessage(c, msg)

SpecReconnect == Init /\ [][NextReconnect]_vars

\* The task session on a page that may be left at any moment: the effect
\* cleanup runs once, and the timers, requests and sockets that survive it
\* go on.
NextTeardown ==
  \/ \E uid \in UidInputs : FetchUser(uid)
  \/ \E c \in Channels : OnOpen(c)
  \/ Cleanup
  \/ \E n \in 0..MaxFiles : Submit(n)
  \/ \E i \in Calls : UploadOk(i)
  \/ \E i \in Calls : WaitDone(i)
  \/ \E i \in Calls : BackendCreate(i)
  \/ \E i \in Calls, s \in {"completed", "error"}, hasResult \in BOOLEAN :
       BackendFinish(i, s, hasResult)
  \/ \E i \in Calls : CreateOk(i)
  \/ \E i \in Calls : PollTick(i)
  \/ \E i \in Calls, ok \in BOOLEAN : PollResponse(i, ok)
  \/ \E c \in Channels, msg \in Frames : OnMessage(c, msg)

SpecTeardown == Init /\ [][NextTeardown]_vars

\* The close event of a socket that is CLOSING is delivered.
CloseDelivered(c) == chan[c] = "closing" /\ OnClose(c)

\* SpecReconnect with the reconnect timer firing when its 3000 ms are over
\* and every socket that is CLOSING delivering its close event.
SpecReconnectLive ==
  /\ Init /\ [][NextReconnect]_vars
  /\ WF_vars(\E t \in reconnectTimers : ReconnectFire(t))
  /\ \A c \in Channels : WF_vars(CloseDelivered(c))

\* SpecTask with the timers firing and the pull requests answered: an active
\* interval keeps ticking, a request in flight gets its response.
SpecLive ==
  /\ Init /\ [][NextTask]_vars
  /\ \A i \in Calls :
       /\ WF_vars(PollTick(i))
       /\ WF_vars(\E ok \in BOOLEAN : PollResponse(i, ok))

\* ------------------------------------------------------------------ claims
Live == {"connecting", "open"}
Notifications == {"agent_log", "task_completed", "task_error"}

\* The session state the page shows, read off the surfaced result.
Status ==
  IF ~showResults \/ result.kind = "none" THEN "Pending"
  ELSE IF result.kind = "completed" THEN "Completed"
  ELSE IF result.kind = "timeout" THEN "TimedOut"
  ELSE "Failed"

\* A step that is the response of a pull request of call i taking the
\* completed or the error branch.
PollApplies(i) ==
  \E ok \in BOOLEAN :
    /\ PollBranch(ok, taskStatus[i], taskResult[i]) # "none"
    /\ PollResponse(i, ok)

\* A step that is the response of a pull request of call i forcing the
\* timeout result.
PollTimesOut(i) ==
  \E ok \in BOOLEAN :
    /\ calls[i].pollCount >= maxPolls
    /\ PollResponse(i, ok)

\* task_completed for t was applied by onmessage: its payload is surfaced and
\* no pull response has appended its System entry.
PushResolved(t) ==
  /\ showResults /\ ~isRunning /\ taskIdRef = Null
  /\ result = Payload(t, "completed")
  /\ \A k \in 1..Len(agentLogs) : agentLogs[k].agent # "System"

\* C1 (P2): once the push channel's task_completed for t has been applied, a
\* poll response for t that arrives afterwards does not perform the terminal
\* transition again, and the poll timer of t is cancelled.
C1_TransitionOnce ==
  [][\A t \in Calls :
       PushResolved(t) => /\ ~PollApplies(t)
                          /\ ~PollTimesOut(t)
                          /\ [id |-> t] \notin pollIntervals]_vars

\* C2 (finality): once the session is Completed or Failed, every step other
\* than an accepted submit (which resets the result) leaves the status and
\* the result as they are.
C2_TerminalIsFinal ==
  [][(Status \in {"Completed", "Failed"} /\ result'.kind # "none")
       => (result' = result /\ showResults' = showResults
           /\ isRunning' = isRunning)]_vars

\* C3 (P3): while a task id is bound, a notification carrying another task id
\* changes nothing: event log, result, status, task id, poll timer.
C3_MismatchInert ==
  [][\A c \in Channels, msg \in Frames :
       (/\ taskIdRef # Null
        /\ msg.type \in Notifications
        /\ msg.task_id # taskIdRef
        /\ OnMessage(c, msg))
       => UNCHANGED <<agentLogs, result, showResults, isRunning, taskIdRef,
                      pollIntervalRef, pollIntervals, calls>>]_vars

\* A task id is bound, a socket is open and the backend has a notification of
\* another task to send on it.
C3_Witness ==
  /\ taskIdRef # Null
  /\ \E c \in Channels : chan[c] = "open"
  /\ \E msg \in Frames : msg.type \in Notifications /\ msg.task_id # taskIdRef

\* The latest call of the submit handler is in progress.
InProgress(i) ==
  i = NumCalls /\ calls[i].pc \in {"uploading", "waiting", "creating",
                                   "created", "started"}

\* C4: a notification of the task of an earlier session is inert once a new
\* submit has started, also before the new session has bound its task id: no
\* event appended, no result set, the new session not ended.
C4_StaleInert ==
  [][\A c \in Channels, msg \in Frames, i \in Calls :
       (/\ InProgress(i)
        /\ msg.type \in Notifications
        /\ msg.task_id < i
        /\ OnMessage(c, msg))
       => UNCHANGED <<agentLogs, result, showResults, isRunning>>]_vars

\* C5: at most one socket is CONNECTING or OPEN.
C5_NoDuplicateChannels ==
  Cardinality({c \in Channels : chan[c] \in Live}) <= 1

\* C6 (P1): at most one reconnect timer is pending, and every pending
\* reconnect timer was scheduled with the delay of 3000 ms.
C6_OneReconnectTimer ==
  /\ Cardinality(reconnectTimers) <= 1
  /\ \A t \in reconnectTimers : t.delay = 3000

\* A reconnect timer is pending while the page is mounted and two sockets
\* have delivered their close event.
C6_Witness ==
  /\ mounted
  /\ reconnectTimers # {}
  /\ Cardinality({c \in Channels : chan[c] = "closed"}) >= 2

\* C7: after the cleanup no reconnect timer is scheduled and no socket is
\* created.
C7_NoReconnectAfterTeardown ==
  [][~mounted => (reconnectTimers' \subseteq reconnectTimers
                  /\ NumChan' = NumChan)]_vars

\* C8 (P4): while the task stays unresolved and the ticks of its session
\* poll, the timeout is forced at the 30th tick and cancels the timer, so no
\* tick follows the 30th, and the timeout is forced once.
C8_TimedOutOnceAt30 ==
  /\ [](\A i \in Calls :
          (taskStatus[i] = "running" /\ ~StopsEarly(calls[i]))
            => calls[i].pollCount <= maxPolls)
  /\ [][\A i \in Calls : (result = TimeoutResult(i) /\ showResults)
                           => ~PollTimesOut(i)]_vars

\* The latest call, i, has bound its task id and the session is waiting for
\* the result.
Awaiting(i) ==
  i = NumCalls /\ calls[i].pc = "started" /\ taskIdRef = i /\ isRunning

\* C9 (liveness): every session that is Awaiting is eventually resolved.
C9_EventuallyResolved ==
  \A i \in Calls : Awaiting(i) ~> (showResults /\ ~isRunning)

\* C10: once the timeout result of task t is surfaced, no push notification
\* and no poll response changes the surfaced result.
C10_TimedOutIsFinal ==
  [][(Status = "TimedOut" /\ result'.kind # "none")
       => result' = result]_vars

\* C11: a poll response for a task other than the bound task id changes
\* nothing of the session: result, flags, event log, task id, poll timer.
C11_PollCorrelated ==
  [][\A i \in Calls, ok \in BOOLEAN :
       (taskIdRef # Null /\ taskIdRef # i /\ PollResponse(i, ok))
       => UNCHANGED <<result, showResults, isRunning, agentLogs, taskIdRef,
                      pollIntervalRef, pollIntervals>>]_vars

Busy(i) ==
  \/ calls[i].pc \in {"uploading", "waiting", "creating", "created"}
  \/ calls[i].pc = "started" /\ taskIdRef = i /\ isRunning

\* C13: no submit is accepted while a call of the handler is Uploading,
\* Submitted or Awaiting, so at most one call is ever in these states.
C13_SubmitOnlyWhenIdle ==
  /\ [][\A n \in 0..MaxFiles : Submit(n) => \A i \in Calls : ~Busy(i)]_vars
  /\ [](Cardinality({i \in Calls : Busy(i)}) <= 1)
\* C14: a poll timer is active if and only if the session is Awaiting.
C14_PollTimerIffAwaiting ==
  (pollIntervals # {}) <=> (\E i \in Calls : Awaiting(i))
\* C15: starting the poll cycle cancels a poll timer that is still active, so
\* at most one poll timer is active and it is the one pollIntervalRef holds.
C15_PollStartIdempotent ==
  /\ Cardinality(pollIntervals) <= 1
  /\ \A iv \in pollIntervals : iv.id = pollIntervalRef
\* C16 (P6): every 'ping' was sent on a socket that was OPEN at that moment,
\* and no socket that has delivered its close event has its ping interval
\* still active.
C16_PingOnlyWhileConnected ==
  /\ lastPing # NoPing => lastPing.readyState = "open"
  /\ \A c \in Channels : chan[c] = "closed" => [id |-> c] \notin pingIntervals

\* A 'ping' was sent on a socket that has since delivered its close event,
\* and a later socket is open.
C16_Witness ==
  /\ lastPing # NoPing
  /\ chan[lastPing.ws] = "closed"
  /\ \E c \in Channels : chan[c] = "open"
InvalidIdentities == {NoUid, <<" ">>, <<" ", " ">>, UndefinedWord, NullWord}

\* C18: an invalid identity opens no channel: setupWebSocket would return
\* before `new WebSocket` in every state, and fetchUser answered with one
\* stores no user id and leaves the sockets, wsRef, the connected flag and
\* all timers as they are.
C18_InvalidIdentityInert ==
  /\ [](\A uid \in InvalidIdentities : ~ValidUid(uid) /\ ~Creates(uid))
  /\ [][\A uid \in InvalidIdentities :
          FetchUser(uid)
          => UNCHANGED <<userId, chan, wsRef, wsConnected, reconnectTimeoutRef,
                         reconnectTimers, pingIntervalRef, pingIntervals,
                         lastPing>>]_vars

\* fetchUser has been answered with an invalid identity: no user id is
\* stored and no socket exists.
C18_Witness ==
  ~fetching /\ userId = NoUid /\ wsRef = Null /\ NumChan = 0
\* Socket c is a re-established channel: it is open and an earlier socket
\* has delivered its close event.
Reestablished(c) ==
  chan[c] = "open" /\ \E d \in Channels : d < c /\ chan[d] = "closed"

\* C19 (scenario C): while a session is Awaiting, the error, close and open
\* events of the sockets and the reconnect timer leave the task session as
\* it is (task id, flags, result, event log, poll timer), and a
\* task_completed for the bound task id on a re-established channel surfaces
\* its result and ends the session as Completed.
C19_ReconnectKeepsSession ==
  /\ [][\A c \in Channels :
          ((\E i \in Calls : Awaiting(i))
           /\ (OnError(c) \/ OnClose(c) \/ OnOpen(c)))
          => UNCHANGED taskVars]_vars
  /\ [][\A t \in reconnectTimers :
          ((\E i \in Calls : Awaiting(i)) /\ ReconnectFire(t))
          => UNCHANGED taskVars]_vars
  /\ [][\A c \in Channels, i \in Calls :
          (/\ Awaiting(i)
           /\ Reestablished(c)
           /\ [type |-> "task_completed", task_id |-> i] \in Frames
           /\ OnMessage(c, [type |-> "task_completed", task_id |-> i]))
          => /\ result' = Payload(i, "completed")
             /\ showResults' /\ ~isRunning'
             /\ taskIdRef' = Null]_vars

\* A session is Awaiting, the socket wsRef holds is a re-established one and
\* the backend has completed the task.
C19_Witness ==
  \E i \in Calls :
    /\ Awaiting(i)
    /\ wsRef # Null /\ Reestablished(wsRef)
    /\ taskStatus[i] = "completed"
\* C20: the timeout result is not rendered as a failed task by the results
\* view, and the view shows its check-later guidance.
C20_TimedOutNotFailed ==
  Status = "TimedOut"
    => LET v == ResultsPanel(showResults, result)
       IN v.view # "Task Failed" /\ "Check History page later" \in v.shows
\* C21: a poll response that reports the task completed or failed to a
\* session that is Awaiting ends the session in that same step, as Completed
\* or Failed, with the task id cleared and the poll timer cancelled, with or
\* without a stored result.
C21_TerminalPollEndsSession ==
  [][\A i \in Calls :
       (/\ Awaiting(i)
        /\ taskStatus[i] \in {"completed", "error"}
        /\ PollResponse(i, TRUE))
       => /\ showResults' /\ ~isRunning'
          /\ Status' \in {"Completed", "Failed", "TimedOut"}
          /\ taskIdRef' = Null
          /\ [id |-> i] \notin pollIntervals']_vars

\* C22: a poll response that takes the completed or the error branch never
\* leaves the timeout result surfaced.
C22_TerminalBeatsTimeout ==
  [][\A i \in Calls, ok \in BOOLEAN :
       (/\ PollBranch(ok, taskStatus[i], taskResult[i]) # "none"
        /\ PollResponse(i, ok))
       => result'.kind # "timeout"]_vars
\* C23: a pull request that fails (exception or non-OK response) while the
\* session is Awaiting and the budget is not exhausted changes nothing of
\* the session: result, flags, event log, task id, poll timer; its tick
\* stays counted, and a failed request of a tick at or beyond the 30th
\* forces the timeout like any other.
C23_FailedPollCountsOnly ==
  [][\A i \in Calls :
       (Awaiting(i) /\ [id |-> i] \in pollIntervals /\ PollResponse(i, FALSE))
       => IF BudgetExhausted(calls[i])
          THEN result' = TimeoutResult(i) /\ showResults' /\ ~isRunning'
          ELSE /\ UNCHANGED <<result, showResults, isRunning, agentLogs,
                              taskIdRef, pollIntervalRef, pollIntervals>>
               /\ calls'[i].pollCount = calls[i].pollCount]_vars

\* The task has failed on the backend, a tick of the Awaiting session has
\* been counted and answered, and nothing is surfaced.
C23_Witness ==
  \E i \in Calls :
    /\ Awaiting(i) /\ [id |-> i] \in pollIntervals
    /\ taskStatus[i] = "error"
    /\ calls[i].pollCount >= 1 /\ calls[i].inflight = 0
    /\ ~showResults /\ result = NoResult
\* A step in which onmessage of socket c accepts the terminal notification
\* of the bound task id.
AcceptsTerminal(c, msg) ==
  /\ msg.type \in {"task_completed", "task_error"}
  /\ taskIdRef # Null /\ msg.task_id = taskIdRef
  /\ OnMessage(c, msg)

C25_TickPolls ==
  [][\A i \in Calls :
       (Awaiting(i) /\ PollTick(i))
       => /\ calls'[i].inflight = calls[i].inflight + 1
          /\ [id |-> i] \in pollIntervals']_vars
\* C26: every socket that is OPEN has its ping interval active.
C26_ConnectedHasHeartbeat ==
  \A c \in Channels : chan[c] = "open" => [id |-> c] \in pingIntervals

\* C27: no reconnect timer is pending while a socket is OPEN.
C27_NoReconnectWhileConnected ==
  (\E c \in Channels : chan[c] = "open") => reconnectTimers = {}
\* The socket wsRef holds is OPEN.
Tracked == wsRef # Null /\ chan[wsRef] = "open"

\* C28: while the socket wsRef holds is OPEN, setupWebSocket returns before
\* closing or creating a socket for every identity, and the steps of the
\* submit handler and of fetchUser that call it leave the sockets, wsRef and
\* the ping and reconnect timers as they are.
C28_ConnectWhileConnectedNoOp ==
  /\ [](Tracked => \A uid \in UidInputs : ~Creates(uid))
  /\ [][(Tracked /\ (\/ \E n \in 0..MaxFiles : Submit(n)
                      \/ \E i \in Calls : UploadOk(i)
                      \/ \E uid \in UidInputs : FetchUser(uid)))
         => UNCHANGED <<chan, wsRef, pingIntervalRef, pingIntervals,
                        reconnectTimeoutRef, reconnectTimers>>]_vars

\* The submit handler has called setupWebSocket, its render having seen the
\* channel disconnected, while the only socket there is was OPEN and held
\* by wsRef: the handler is in its 2 s wait and no second socket exists.
C28_Witness ==
  /\ Tracked /\ NumChan = 1
  /\ \E i \in Calls : calls[i].pc = "waiting"
\* C29: onerror marks the connection disconnected and does nothing else: no
\* reconnect timer scheduled or cleared, the ping interval neither stopped
\* nor started, wsRef and the task session untouched.
C29_ErrorOnlyMarksDisconnected ==
  [][\A c \in Channels :
       OnError(c)
       => /\ ~wsConnected'
          /\ UNCHANGED <<wsRef, reconnectTimeoutRef, reconnectTimers,
                         pingIntervalRef, pingIntervals, userId, taskVars>>]_vars

\* The socket wsRef holds has failed after it was open and has not yet
\* delivered its close event: the connection is marked disconnected and the
\* ping interval of the socket is still active.
C29_Witness ==
  /\ wsRef # Null /\ chan[wsRef] = "closing"
  /\ ~wsConnected
  /\ [id |-> wsRef] \in pingIntervals
\* C30: a 'pong' frame and a frame that does not parse change nothing:
\* neither the sockets, wsRef, the connected flag and the timers nor the
\* task session.
C30_NonNotificationInert ==
  [][\A c \in Channels, msg \in Frames :
       (msg.type \in {"pong", "garbage"} /\ OnMessage(c, msg))
       => UNCHANGED vars]_vars

\* A session is Awaiting with its poll timer active, on an open socket whose
\* ping interval is active and marked connected: the state in which a pong
\* or an unparsable frame arrives.
C30_Witness ==
  /\ wsConnected
  /\ \E c \in Channels : chan[c] = "open" /\ [id |-> c] \in pingIntervals
  /\ \E i \in Calls : Awaiting(i) /\ [id |-> i] \in pollIntervals
\* C31: the cleanup run while a session is Awaiting cancels every poll timer
\* that was started: none is active after it, so no tick fires and no pull
\* request is issued after teardown.
C31_TeardownCancelsPolling ==
  [][(Cleanup /\ \E i \in Calls : Awaiting(i)) => pollIntervals' = {}]_vars
\* C32: in the state the cleanup leaves, no socket is CONNECTING or OPEN and
\* no ping interval is active, whatever the state it was run in.
C32_TeardownClosesChannels ==
  [][Cleanup => /\ \A c \in Channels : chan'[c] \notin Live
                /\ pingIntervals' = {}]_vars
C34_AwaitingStartsWithEmptyLog ==
  [][\A i \in Calls : CreateOk(i) => agentLogs' = <<>>]_vars
\* No socket is CONNECTING or OPEN.
NoChannel == \A c \in Channels : chan[c] \notin Live

\* C35: while the page stays mounted, every pending reconnect timer carries
\* the identity the page obtained, its callback creates a socket unless the
\* tracked one is OPEN, a known identity without a live socket always has a
\* close event or a reconnect timer pending, and it eventually has a socket
\* CONNECTING or OPEN again (as long as the model may create one), whether
\* or not a task is in flight.
C35_ReconnectEventually ==
  /\ [](\A t \in reconnectTimers : t.uid = userId /\ ValidUid(t.uid))
  /\ [][\A t \in reconnectTimers :
          (ReconnectFire(t) /\ ~Tracked)
          => NumChan' = NumChan + 1 /\ chan'[NumChan'] = "connecting"]_vars
  /\ []((userId # NoUid /\ NoChannel)
          => \/ \E c \in Channels : chan[c] = "closing"
             \/ reconnectTimers # {})
  /\ (userId # NoUid /\ NoChannel /\ NumChan < MaxChannels) ~> ~NoChannel

\* A session is Awaiting, two sockets have delivered their close event, no
\* socket is live and the reconnect timer is pending.
C35_Witness ==
  /\ NoChannel /\ reconnectTimers # {}
  /\ Cardinality({c \in Channels : chan[c] = "closed"}) = 2
  /\ NumChan < MaxChannels
  /\ \E i \in Calls : Awaiting(i)
\* C36: the close event of a socket that setupWebSocket closed and replaced
\* leaves its successor alone: wsRef keeps holding the successor, the ping
\* interval is not cleared and no reconnect timer is scheduled.
C36_ReplacedCloseInert ==
  [][\A c \in Channels :
       (wsRef # Null /\ wsRef # c /\ chan[c] = "closing" /\ OnClose(c))
       => /\ wsRef' = wsRef
          /\ UNCHANGED <<pingIntervalRef, pingIntervals>>
          /\ UNCHANGED <<reconnectTimeoutRef, reconnectTimers>>]_vars
====
